---- MODULE Spec2Model ----
(***************************************************************************)
(* copyjob: the job execution engine of src/main.rs.                       *)
(*                                                                         *)
(* The file system is a function from the paths that exist to their        *)
(* nodes.  A path is the sequence of its components, the root directory    *)
(* being the component "/" (std::path::Component::RootDir), so that the    *)
(* empty sequence is the empty PathBuf.  Contents are abstract byte        *)
(* strings (naturals), modification times are naturals.                    *)
(***************************************************************************)
EXTENDS Naturals, Integers, Sequences, FiniteSets, TLC

VARIABLES
    fs,                 \* the file system: existing path -> node
    clock,              \* the time the next written file is stamped with
    trash_available,    \* whether the platform trash can take a file
    dir_order,          \* the order in which a directory lists its entries
    job,                \* the CopyJobConfig being run
    call,               \* the arguments of a direct copy_file call
    pc,                 \* position in run_single_job / in the direct call
    run,                \* how many times the job has been started
    files_to_copy,      \* the candidates the copy loop has not visited yet
    files_to_delete,    \* the deletion candidates still listed
    num_files_copied,
    num_files_deleted,
    result,             \* the Outcome run_single_job returned
    enumerated,         \* the directories list_files_matching has walked
    copy_log,           \* one record per copy loop iteration
    remove_log,         \* one record per remove_file call
    msg_log,            \* the job-level codes written to stdout/stderr
    fs_before,          \* the file system when the current run started
    global_config,      \* the CopyJobGlobalConfig of the invocation
    job_configs,        \* the declared jobs, in declaration order
    job_index,          \* position of run_jobs in job_configs
    job_outcomes,       \* one record per run_single_job call that returned
    exit_status,        \* how the process ended
    listed              \* what a direct list_files_matching call returned

vars == <<fs, clock, trash_available, dir_order, job, call, pc, run,
          files_to_copy, files_to_delete, num_files_copied,
          num_files_deleted, result, enumerated, copy_log, remove_log,
          msg_log, fs_before, global_config, job_configs, job_index,
          job_outcomes, exit_status, listed>>

\* the state of run_jobs and of main around the job that is running
run_jobs_vars == <<global_config, job_configs, job_index, job_outcomes, exit_status>>

-----------------------------------------------------------------------------
(* Bounds of the model *)

MaxContent == 2     \* file contents are 1..MaxContent
MaxMTime == 3       \* initial modification times are 1..MaxMTime
MaxRuns == 2        \* a job is started at most MaxRuns times in a row
MaxJobs == 3        \* a configuration declares MaxJobs jobs

-----------------------------------------------------------------------------
(* Outcome and the result codes *)

ERR_OK == 0
FOERR_GENERIC_FAILURE == 1001
FOERR_DESTINATION_IS_ITSELF == 1011
FOERR_DESTINATION_IS_DIR == 1012
FOERR_DESTINATION_IS_SYMLINK == 1013
FOERR_DESTINATION_IS_NEWER == 1014
FOERR_DESTINATION_IS_IDENTICAL == 1015
FOERR_DESTINATION_IS_READONLY == 1016
FOERR_DESTINATION_EXISTS == 1021
FOERR_DESTINATION_NOT_ACCESSIBLE == 1022
FOERR_CANNOT_CREATE_DIR == 1031
FOERR_SOURCE_IS_DIR == 1042
FOERR_SOURCE_IS_SYMLINK == 1043
FOERR_SOURCE_NOT_ACCESSIBLE == 1044
CJERR_GENERIC_FAILURE == 2001
CJERR_SOURCE_DIR_NOT_EXISTS == 2011
CJERR_DESTINATION_DIR_NOT_EXISTS == 2012
CJERR_NO_SOURCE_FILES == 2013
CJERR_CANNOT_DETERMINE_DESTFILE == 2021

Success == [tag |-> "Success", code |-> ERR_OK]
Error(c) == [tag |-> "Error", code |-> c]
NoOutcome == [tag |-> "None", code |-> ERR_OK]

-----------------------------------------------------------------------------
(* Paths (std::path) *)

RootDir == "/"
EmptyPath == <<>>

IsAbsolute(p) == Len(p) > 0 /\ p[1] = RootDir

IsPrefix(b, p) == Len(b) <= Len(p) /\ SubSeq(p, 1, Len(b)) = b

\* Path::join: an absolute argument replaces the base
Join(base, rel) == IF IsAbsolute(rel) THEN rel ELSE base \o rel

\* Path::strip_prefix(..).unwrap_or(""): the rest after the prefix, or the
\* empty path when base is not a prefix
StripPrefix(p, base) ==
    IF IsPrefix(base, p) THEN SubSeq(p, Len(base) + 1, Len(p)) ELSE EmptyPath

\* Path::file_name().unwrap_or(""): the last normal component
FileName(p) ==
    IF Len(p) > 0 /\ p[Len(p)] # RootDir THEN <<p[Len(p)]>> ELSE EmptyPath

\* PathBuf::pop: whether there is a parent, and the parent
HasParent(p) == Len(p) > 1
Parent(p) == IF HasParent(p) THEN SubSeq(p, 1, Len(p) - 1) ELSE p

-----------------------------------------------------------------------------
(* The file system *)

\* ro: the entry cannot be written; readable: its bytes can be read
FileNode(c, m, ro) == [kind |-> "file", content |-> c, mtime |-> m, ro |-> ro, readable |-> TRUE, target |-> EmptyPath]
DirNode(ro) == [kind |-> "dir", content |-> 0, mtime |-> 0, ro |-> ro, readable |-> TRUE, target |-> EmptyPath]
LinkNode(t) == [kind |-> "link", content |-> 0, mtime |-> 0, ro |-> FALSE, readable |-> TRUE, target |-> t]

\* a file whose owner has taken the read permission away: it has metadata
\* and cannot be opened
UnreadableFile(c, m) == [kind |-> "file", content |-> c, mtime |-> m, ro |-> FALSE, readable |-> FALSE, target |-> EmptyPath]

Failed == [ok |-> FALSE, path |-> EmptyPath]
Found(p) == [ok |-> TRUE, path |-> p]

\* Path::canonicalize: every symbolic link on the way is resolved; an error
\* when a component does not exist
RECURSIVE Canonicalize(_, _)
Canonicalize(f, p) ==
    IF ~IsAbsolute(p) THEN Failed
    ELSE IF Len(p) = 1 THEN Found(p)
    ELSE LET par == Canonicalize(f, Parent(p)) IN
         IF ~par.ok THEN Failed
         ELSE LET q == Append(par.path, p[Len(p)]) IN
              IF q \notin DOMAIN f THEN Failed
              ELSE IF f[q].kind = "link" THEN Canonicalize(f, f[q].target)
              ELSE IF f[par.path].kind # "dir" THEN Failed
              ELSE Found(q)

\* std::fs::metadata: the node behind the path, symbolic links followed
MetadataOk(f, p) == Canonicalize(f, p).ok
Metadata(f, p) == f[Canonicalize(f, p).path]

\* std::fs::symlink_metadata: the entry itself, a final symbolic link is not
\* followed
SymlinkMetadata(f, p) ==
    IF ~IsAbsolute(p) THEN Failed
    ELSE IF Len(p) = 1 THEN Found(p)
    ELSE LET par == Canonicalize(f, Parent(p)) IN
         IF ~par.ok THEN Failed
         ELSE IF Append(par.path, p[Len(p)]) \in DOMAIN f /\ f[par.path].kind = "dir"
         THEN Found(Append(par.path, p[Len(p)]))
         ELSE Failed

\* Metadata::is_dir, Metadata::is_symlink of what std::fs::metadata returned:
\* the link has been followed, the file type is never a symbolic link
StatIsDir(st) == st.kind = "dir"
StatIsSymlink(st) == st.kind = "link"

\* Path::exists
Exists(f, p) == MetadataOk(f, p)

\* the entries of directory d
Children(f, d) == {q \in DOMAIN f : Len(q) = Len(d) + 1 /\ IsPrefix(d, q)}

\* std::fs::create_dir_all: creates the directory and its missing ancestors;
\* fails below a read-only directory or a non-directory
RECURSIVE CreateDirAll(_, _)
CreateDirAll(f, d) ==
    IF MetadataOk(f, d)
    THEN [ok |-> StatIsDir(Metadata(f, d)), fs |-> f]
    ELSE IF ~HasParent(d) \/ d \in DOMAIN f THEN [ok |-> FALSE, fs |-> f]
    ELSE LET up == CreateDirAll(f, Parent(d)) IN
         IF ~up.ok THEN up
         ELSE LET par == Canonicalize(up.fs, Parent(d)).path
                  q == Append(par, d[Len(d)]) IN
              IF up.fs[par].ro THEN [ok |-> FALSE, fs |-> up.fs]
              ELSE [ok |-> TRUE,
                    fs |-> [x \in DOMAIN up.fs \cup {q} |->
                             IF x = q THEN DirNode(FALSE) ELSE up.fs[x]]]

\* where open(path, O_WRONLY|O_CREAT) ends up: the final symbolic links are
\* followed, the file need not exist yet but its directory must
RECURSIVE OpenTarget(_, _)
OpenTarget(f, p) ==
    IF ~HasParent(p) THEN Failed
    ELSE LET par == Canonicalize(f, Parent(p)) IN
         IF ~par.ok THEN Failed
         ELSE IF f[par.path].kind # "dir" THEN Failed
         ELSE LET q == Append(par.path, p[Len(p)]) IN
              IF q \in DOMAIN f /\ f[q].kind = "link"
              THEN OpenTarget(f, f[q].target)
              ELSE Found(q)

\* std::fs::copy(from, to): the content and the permissions of from are
\* written to to, which is created when missing; res is "ok", "perm" (the
\* io::ErrorKind::PermissionDenied) or "other"
FsCopy(f, from, to, now) ==
    LET t == OpenTarget(f, to) IN
    IF ~Metadata(f, from).readable THEN [res |-> "perm", fs |-> f]
    ELSE IF ~t.ok THEN [res |-> "other", fs |-> f]
    ELSE IF t.path \in DOMAIN f /\ f[t.path].kind = "dir"
    THEN [res |-> "other", fs |-> f]
    ELSE IF t.path \in DOMAIN f /\ f[t.path].ro
    THEN [res |-> "perm", fs |-> f]
    ELSE IF t.path \notin DOMAIN f /\ f[Parent(t.path)].ro
    THEN [res |-> "perm", fs |-> f]
    ELSE [res |-> "ok",
          fs |-> [x \in DOMAIN f \cup {t.path} |->
                   IF x = t.path
                   THEN FileNode(Metadata(f, from).content, now,
                                 Metadata(f, from).ro)
                   ELSE f[x]]]

\* the entry at p is taken out of its directory (unlink)
Unlink(f, p) == [x \in DOMAIN f \ {p} |-> f[x]]
CanUnlink(f, p) == p \in DOMAIN f /\ HasParent(p) /\ ~f[Parent(p)].ro

\* trash::delete: moves the entry to the platform trash when there is one
TrashDelete(f, p, trash) ==
    IF trash /\ CanUnlink(f, p) /\ f[p].kind # "dir"
    THEN [ok |-> TRUE, fs |-> Unlink(f, p)]
    ELSE [ok |-> FALSE, fs |-> f]

\* std::fs::remove_file
FsRemoveFile(f, p) ==
    IF CanUnlink(f, p) /\ f[p].kind # "dir"
    THEN [ok |-> TRUE, fs |-> Unlink(f, p)]
    ELSE [ok |-> FALSE, fs |-> f]

\* sha256_digest: the digest of the bytes of a file that can be opened
Sha256(c) == <<"sha256", c>>
Sha256DigestOk(f, p) == MetadataOk(f, p) /\ Metadata(f, p).kind = "file" /\ Metadata(f, p).readable
Sha256Digest(f, p) == Sha256(Metadata(f, p).content)

-----------------------------------------------------------------------------
(* copy_file *)

Ret(o, f) == [outcome |-> o, fs |-> f]

\* the byte copy and the trash step before it (main.rs 1219-1241)
CopyBytes(f, source_path, destination_path, overwriting, trash_on_overwrite, now, trash) ==
    LET f1 == IF overwriting /\ trash_on_overwrite
              THEN TrashDelete(f, destination_path, trash).fs
              ELSE f
        cp == FsCopy(f1, source_path, destination_path, now) IN
    IF cp.res = "ok" THEN Ret(Success, cp.fs)
    ELSE IF cp.res = "perm" THEN Ret(Error(FOERR_DESTINATION_IS_READONLY), cp.fs)
    ELSE Ret(Error(FOERR_GENERIC_FAILURE), cp.fs)

\* mutant of DestinationChecks: an existing destination is overwritten also
\* when overwrite is false
DestinationChecks_IgnoreOverwrite(f, source_path, destination_path, overwrite, skip_newer, check_content, follow_symlinks) ==
    LET s_stat == Metadata(f, source_path)
        d_stat == Metadata(f, destination_path) IN
    IF StatIsDir(d_stat) THEN Error(FOERR_DESTINATION_IS_DIR)
    ELSE IF skip_newer /\ s_stat.mtime <= d_stat.mtime
    THEN Error(FOERR_DESTINATION_IS_NEWER)
    ELSE IF check_content
            /\ Sha256Digest(f, destination_path) = Sha256Digest(f, source_path)
    THEN Error(FOERR_DESTINATION_IS_IDENTICAL)
    ELSE NoOutcome

\* mutant of DestinationChecks: a destination as old as the source is
\* overwritten (< for <=)
DestinationChecks_StrictlyNewer(f, source_path, destination_path, overwrite, skip_newer, check_content, follow_symlinks) ==
    LET s_stat == Metadata(f, source_path)
        d_stat == Metadata(f, destination_path) IN
    IF ~overwrite THEN Error(FOERR_DESTINATION_EXISTS)
    ELSE IF StatIsDir(d_stat) THEN Error(FOERR_DESTINATION_IS_DIR)
    ELSE IF skip_newer /\ s_stat.mtime < d_stat.mtime
    THEN Error(FOERR_DESTINATION_IS_NEWER)
    ELSE IF check_content
            /\ Sha256Digest(f, destination_path) = Sha256Digest(f, source_path)
    THEN Error(FOERR_DESTINATION_IS_IDENTICAL)
    ELSE NoOutcome

\* mutant of DestinationChecks: the digests are compared only when skip_newer
\* is set
DestinationChecks_DigestOnlyIfSkipNewer(f, source_path, destination_path, overwrite, skip_newer, check_content, follow_symlinks) ==
    LET s_stat == Metadata(f, source_path)
        d_stat == Metadata(f, destination_path) IN
    IF ~overwrite THEN Error(FOERR_DESTINATION_EXISTS)
    ELSE IF StatIsDir(d_stat) THEN Error(FOERR_DESTINATION_IS_DIR)
    ELSE IF skip_newer /\ s_stat.mtime <= d_stat.mtime
    THEN Error(FOERR_DESTINATION_IS_NEWER)
    ELSE IF check_content /\ skip_newer
            /\ Sha256Digest(f, destination_path) = Sha256Digest(f, source_path)
    THEN Error(FOERR_DESTINATION_IS_IDENTICAL)
    ELSE NoOutcome

\* mutant of DestinationChecks: check_content is ignored
DestinationChecks_NoDigest(f, source_path, destination_path, overwrite, skip_newer, check_content, follow_symlinks) ==
    LET s_stat == Metadata(f, source_path)
        d_stat == Metadata(f, destination_path) IN
    IF ~overwrite THEN Error(FOERR_DESTINATION_EXISTS)
    ELSE IF StatIsDir(d_stat) THEN Error(FOERR_DESTINATION_IS_DIR)
    ELSE IF skip_newer /\ s_stat.mtime <= d_stat.mtime
    THEN Error(FOERR_DESTINATION_IS_NEWER)
    ELSE NoOutcome

\* the checks made when the destination exists (main.rs 1135-1186);
\* outcome None means that the copy is to be made
DestinationChecks(f, source_path, destination_path, overwrite, skip_newer, check_content, follow_symlinks) ==
    LET s_stat == Metadata(f, source_path)
        d_stat == Metadata(f, destination_path) IN
    IF ~overwrite THEN Error(FOERR_DESTINATION_EXISTS)
    ELSE IF StatIsDir(d_stat) THEN Error(FOERR_DESTINATION_IS_DIR)
    ELSE IF StatIsSymlink(d_stat) /\ ~follow_symlinks
    THEN Error(FOERR_DESTINATION_IS_SYMLINK)
    ELSE IF skip_newer /\ s_stat.mtime <= d_stat.mtime
    THEN Error(FOERR_DESTINATION_IS_NEWER)
    ELSE IF check_content /\ ~Sha256DigestOk(f, source_path)
    THEN Error(FOERR_SOURCE_NOT_ACCESSIBLE)
    ELSE IF check_content /\ ~Sha256DigestOk(f, destination_path)
    THEN Error(FOERR_DESTINATION_NOT_ACCESSIBLE)
    ELSE IF check_content
            /\ Sha256Digest(f, destination_path) = Sha256Digest(f, source_path)
    THEN Error(FOERR_DESTINATION_IS_IDENTICAL)
    ELSE NoOutcome

\* the checks made when the destination does not exist (main.rs 1187-1216)
EnsureDestinationDir(f, destination_path, create_directories) ==
    LET destination_dir == Parent(destination_path) IN
    IF ~HasParent(destination_path)
    THEN Ret(Error(FOERR_CANNOT_CREATE_DIR), f)
    ELSE IF MetadataOk(f, destination_dir)
    THEN IF ~StatIsDir(Metadata(f, destination_dir))
         THEN Ret(Error(FOERR_CANNOT_CREATE_DIR), f)
         ELSE Ret(NoOutcome, f)
    ELSE IF ~create_directories THEN Ret(Error(FOERR_CANNOT_CREATE_DIR), f)
    ELSE LET mk == CreateDirAll(f, destination_dir) IN
         IF ~mk.ok THEN Ret(Error(FOERR_CANNOT_CREATE_DIR), mk.fs)
         ELSE Ret(NoOutcome, mk.fs)

\* mutant of IsItself: the check of source against destination is missing
IsItself_Never(source_path, destination_path) == FALSE

\* "first check that source <> destination" (main.rs 1124)
IsItself(source_path, destination_path) == source_path = destination_path

copy_file(f, source, destination, overwrite, skip_newer, check_content, follow_symlinks, create_directories, trash_on_overwrite, now, trash) ==
    LET sc == Canonicalize(f, source)
        dc == Canonicalize(f, destination)
        source_path == IF sc.ok THEN sc.path ELSE EmptyPath
        destination_path == IF dc.ok THEN dc.path ELSE destination IN
    IF ~MetadataOk(f, source_path)
    THEN Ret(Error(FOERR_SOURCE_NOT_ACCESSIBLE), f)
    ELSE IF IsItself(source_path, destination_path)
    THEN Ret(Error(FOERR_DESTINATION_IS_ITSELF), f)
    ELSE IF StatIsDir(Metadata(f, source_path))
    THEN Ret(Error(FOERR_SOURCE_IS_DIR), f)
    ELSE IF StatIsSymlink(Metadata(f, source_path)) /\ ~follow_symlinks
    THEN Ret(Error(FOERR_SOURCE_IS_SYMLINK), f)
    ELSE IF MetadataOk(f, destination_path)
    THEN LET chk == DestinationChecks(f, source_path, destination_path,
                        overwrite, skip_newer, check_content, follow_symlinks)
         IN IF chk # NoOutcome THEN Ret(chk, f)
            ELSE CopyBytes(f, source_path, destination_path, TRUE,
                           trash_on_overwrite, now, trash)
    ELSE LET dir == EnsureDestinationDir(f, destination_path,
                                         create_directories)
         IN IF dir.outcome # NoOutcome THEN dir
            ELSE CopyBytes(dir.fs, source_path, destination_path, FALSE,
                           trash_on_overwrite, now, trash)

-----------------------------------------------------------------------------
(* remove_file *)

remove_file(f, destination, follow_symlinks, trash_on_delete, trash) ==
    LET dc == Canonicalize(f, destination)
        destination_path == IF dc.ok THEN dc.path ELSE EmptyPath IN
    IF ~MetadataOk(f, destination_path)
    THEN Ret(Error(FOERR_DESTINATION_NOT_ACCESSIBLE), f)
    ELSE LET d_stat == Metadata(f, destination_path)
             td == TrashDelete(f, destination_path, trash)
             rm == FsRemoveFile(f, destination_path) IN
         IF StatIsDir(d_stat) THEN Ret(Error(FOERR_DESTINATION_IS_DIR), f)
         ELSE IF StatIsSymlink(d_stat) /\ ~follow_symlinks
         THEN Ret(Error(FOERR_DESTINATION_IS_SYMLINK), f)
         ELSE IF trash_on_delete /\ td.ok THEN Ret(Success, td.fs)
         ELSE IF rm.ok THEN Ret(Success, rm.fs)
         ELSE Ret(Error(FOERR_DESTINATION_NOT_ACCESSIBLE), f)

-----------------------------------------------------------------------------
(* The inputs: directory trees and job configurations *)

ROOT == <<RootDir>>
S == <<RootDir, "s">>
D == <<RootDir, "d">>

Contents == 1..MaxContent
MTimes == 1..MaxMTime

\* a tree from the set of its (path, node) pairs
Tree(pairs) ==
    [p \in {pr[1] : pr \in pairs} |->
        (CHOOSE pr \in pairs : pr[1] = p)[2]]

BaseDirs == {<<ROOT, DirNode(FALSE)>>, <<S, DirNode(FALSE)>>}

\* what a path of the destination side may hold before a copy
DestinationNodes ==
    {FileNode(c, m, ro) : c \in Contents, m \in MTimes, ro \in BOOLEAN}
    \cup {DirNode(FALSE), LinkNode(S \o <<"a">>), LinkNode(D \o <<"gone">>), LinkNode(D \o <<"t">>)}

\* the trees copy_file is called on directly: a source file /s/a, links to
\* it and to the destination, a destination /d/x of every kind or none, and
\* a file /d/t for /d/x to be a link to
CopyTrees ==
    {Tree(BaseDirs \cup {<<D, DirNode(FALSE)>>,
                         <<D \o <<"t">>, FileNode(MaxContent, 2, FALSE)>>,
                         <<S \o <<"a">>, FileNode(1, m, FALSE)>>,
                         <<S \o <<"l">>, LinkNode(S \o <<"a">>)>>,
                         <<S \o <<"k">>, LinkNode(D \o <<"x">>)>>} \cup dx) :
        m \in MTimes,
        dx \in {{}} \cup {{<<D \o <<"x">>, n>>} : n \in DestinationNodes}}

CopySources == {S \o <<"a">>, S \o <<"l">>, S \o <<"k">>, S, S \o <<"none">>}
CopyDestinations == {D \o <<"x">>, D \o <<"sub", "x">>, S \o <<"a">>}

\* a pattern: whether it compiles, the names it matches over their whole
\* length, and the runs of two or more names it matches when they are
\* written with the separator between them
MatchAll == [ok |-> TRUE, names |-> {"a", "b", "c", "l", "x"}, spans |-> {}]
MatchNone == [ok |-> TRUE, names |-> {}, spans |-> {}]

DefaultJob ==
    [job_name |-> "j1", source_dir |-> S, destination_dir |-> D,
     include_pattern |-> MatchAll, exclude_pattern |-> MatchNone,
     excludedir_pattern |-> MatchNone,
     recursive |-> FALSE, follow_symlinks |-> FALSE, overwrite |-> FALSE,
     skip_newer |-> FALSE, check_content |-> FALSE,
     remove_others_matching |-> FALSE, create_directories |-> FALSE,
     keep_structure |-> FALSE, trash_on_delete |-> FALSE,
     trash_on_overwrite |-> FALSE, halt_on_errors |-> FALSE]

NoCall == [source |-> EmptyPath, destination |-> EmptyPath]

\* run_jobs is not part of the specification: its state stays as it is here
NoRunJobs ==
    /\ global_config = [active_jobs |-> <<>>, halt_on_errors |-> FALSE]
    /\ job_configs = <<>>
    /\ job_index = 0
    /\ job_outcomes = <<>>
    /\ exit_status = "none"

CopyLogEntry(r, item, dest, called, o) ==
    [run |-> r, source |-> item, destination |-> dest, called |-> called,
     outcome |-> o]

-----------------------------------------------------------------------------
(* copy_file called on its own, on every input of the bounded sets *)

InitCopy ==
    /\ fs \in CopyTrees
    /\ clock = MaxMTime + 1
    /\ trash_available \in BOOLEAN
    /\ dir_order = <<>>
    /\ \E ow, sn, cc, fl, cd, tr \in BOOLEAN :
          job = [DefaultJob EXCEPT !.overwrite = ow, !.skip_newer = sn,
                    !.check_content = cc, !.follow_symlinks = fl,
                    !.create_directories = cd, !.trash_on_overwrite = tr]
    /\ call \in [source : CopySources, destination : CopyDestinations]
    /\ pc = "call"
    /\ run = 0
    /\ files_to_copy = <<>>
    /\ files_to_delete = <<>>
    /\ num_files_copied = 0
    /\ num_files_deleted = 0
    /\ result = NoOutcome
    /\ enumerated = {}
    /\ copy_log = <<>>
    /\ remove_log = <<>>
    /\ msg_log = <<>>
    /\ fs_before = fs
    /\ NoRunJobs
    /\ listed = <<>>

CopyCall ==
    /\ pc = "call"
    /\ LET r == copy_file(fs, call.source, call.destination, job.overwrite,
                          job.skip_newer, job.check_content,
                          job.follow_symlinks, job.create_directories,
                          job.trash_on_overwrite, clock, trash_available)
       IN /\ fs' = r.fs
          /\ copy_log' = Append(copy_log,
                CopyLogEntry(run, call.source, call.destination, TRUE,
                             r.outcome))
    /\ fs_before' = fs
    /\ clock' = clock + 1
    /\ pc' = "ret"
    /\ UNCHANGED <<trash_available, dir_order, job, call, run, files_to_copy,
                   files_to_delete, num_files_copied, num_files_deleted,
                   result, enumerated, remove_log, msg_log, run_jobs_vars, listed>>

NextCopy == CopyCall

SpecCopy == InitCopy /\ [][NextCopy]_vars

-----------------------------------------------------------------------------
(* Properties of copy_file, under SpecCopy *)

Returned == pc = "ret"
Outcome == copy_log[1].outcome
SourceCanon == Canonicalize(fs_before, call.source)
DestinationCanon == Canonicalize(fs_before, call.destination)

\* the destination path leads to the same file, with the same bytes and the
\* same modification time, as before the call
DestinationUntouched ==
    /\ MetadataOk(fs, call.destination)
    /\ Canonicalize(fs, call.destination) = DestinationCanon
    /\ Metadata(fs, call.destination).content
          = Metadata(fs_before, call.destination).content
    /\ Metadata(fs, call.destination).mtime
          = Metadata(fs_before, call.destination).mtime

\* the checks that copy_file makes on the source and on the pair before it
\* looks at the destination all pass
SourcePasses ==
    /\ SourceCanon.ok
    /\ ~StatIsDir(Metadata(fs_before, call.source))
    /\ SourceCanon.path # DestinationCanon.path

\* source and destination are two distinct regular files
TwoRegularFiles ==
    /\ call.source \in DOMAIN fs_before
    /\ fs_before[call.source].kind = "file"
    /\ call.destination \in DOMAIN fs_before
    /\ fs_before[call.destination].kind = "file"
    /\ SourceCanon.ok /\ DestinationCanon.ok
    /\ SourceCanon.path # DestinationCanon.path

SourceStat == Metadata(fs_before, call.source)
DestinationStat == Metadata(fs_before, call.destination)

\* C2 as stated: with overwrite=false and an existing destination the outcome
\* is Error(DestinationExists) and the destination keeps content and mtime
C2_AlwaysDestinationExists ==
    (Returned /\ ~job.overwrite /\ Exists(fs_before, call.destination))
        => (Outcome = Error(FOERR_DESTINATION_EXISTS) /\ DestinationUntouched)

\* C2 amended: with overwrite=false and an existing destination, the
\* destination keeps its content and modification time, and the outcome is
\* Error(DestinationExists) whenever the source is accessible, is not a
\* directory and is not the same canonical file as the destination
C2_DestinationExists ==
    (Returned /\ ~job.overwrite /\ Exists(fs_before, call.destination))
        => /\ DestinationUntouched
           /\ SourcePasses => Outcome = Error(FOERR_DESTINATION_EXISTS)

C2_Witness ==
    /\ Returned /\ ~job.overwrite
    /\ TwoRegularFiles
    /\ SourceStat.content # DestinationStat.content
    /\ Outcome = Error(FOERR_DESTINATION_EXISTS)

\* C3: when source and destination resolve to the same canonical path the
\* outcome is Error(DestinationIsItself) and the file system is as before
C3_DestinationIsItself ==
    (Returned /\ SourceCanon.ok /\ DestinationCanon.ok
              /\ SourceCanon.path = DestinationCanon.path)
        => (Outcome = Error(FOERR_DESTINATION_IS_ITSELF) /\ fs = fs_before)

C3_Witness ==
    /\ Returned
    /\ call.source # call.destination
    /\ SourceCanon.ok /\ SourceCanon = DestinationCanon
    /\ job.overwrite /\ job.trash_on_overwrite /\ trash_available
    /\ Outcome = Error(FOERR_DESTINATION_IS_ITSELF)

\* C4: overwrite and skip_newer set, two distinct regular files: a destination
\* at least as recent as the source gives Error(DestinationIsNewer); an older
\* one passes on to the content check (DestinationIsIdentical exactly when
\* check_content is set and the bytes are equal) and to the copy
C4_SkipNewer ==
    (Returned /\ job.overwrite /\ job.skip_newer /\ TwoRegularFiles)
        => /\ DestinationStat.mtime >= SourceStat.mtime
                => Outcome = Error(FOERR_DESTINATION_IS_NEWER)
           /\ DestinationStat.mtime < SourceStat.mtime
                => /\ Outcome # Error(FOERR_DESTINATION_IS_NEWER)
                   /\ Outcome = Error(FOERR_DESTINATION_IS_IDENTICAL)
                        <=> (job.check_content
                             /\ SourceStat.content = DestinationStat.content)
                   /\ Outcome \in {Error(FOERR_DESTINATION_IS_IDENTICAL),
                                   Success,
                                   Error(FOERR_DESTINATION_IS_READONLY),
                                   Error(FOERR_GENERIC_FAILURE)}
                   /\ Outcome = Success
                        => Metadata(fs, call.destination).content
                              = SourceStat.content

C4_Witness ==
    /\ Returned /\ job.overwrite /\ job.skip_newer /\ TwoRegularFiles
    /\ DestinationStat.mtime = SourceStat.mtime
    /\ SourceStat.content # DestinationStat.content
    /\ Outcome = Error(FOERR_DESTINATION_IS_NEWER)

-----------------------------------------------------------------------------
(* list_files_matching *)

\* the matcher a pattern compiles to, as the set of the names it matches
\* over their whole length (case folding included, when case_sensitive is
\* off); a pattern that does not compile is replaced by RE_MATCH_NO_FILE,
\* the expression ^\*$, whose only match is the name made of one asterisk
RE_MATCH_NO_FILE == {"*"}
Compile(pattern) == IF pattern.ok THEN pattern.names ELSE RE_MATCH_NO_FILE

\* the matcher of the excluded directories is searched for in subdir_name,
\* from a separator to a separator: it is the set of the runs of directory
\* names it matches.  RE_MATCH_NO_FILE is anchored at both ends and
\* subdir_name ends with a separator, so that it matches none
CompileDir(pattern) == IF pattern.ok THEN {<<n>> : n \in pattern.names} \cup pattern.spans ELSE {}

DirEntry(p, t) == [path |-> p, ftype |-> t]

\* the names listed by the directory at real path d, in directory order
Listing(f, d, order) == SelectSeq(order, LAMBDA n : Append(d, n) \in DOMAIN f)

\* WalkDir::new(root).max_depth(..).follow_links(follow): the entry itself,
\* then, for a directory above the depth limit, the walks of its entries.
\* p is the path the entry is reported under.  An entry that cannot be read
\* is an error, which filter_map(|e| e.ok()) drops.
RECURSIVE WalkEntry(_, _, _, _, _, _)
RECURSIVE WalkEntries(_, _, _, _, _, _, _)
WalkEntry(f, p, depth, recursive, follow, order) ==
    LET l == SymlinkMetadata(f, p)
        c == Canonicalize(f, p)
        present == IF follow THEN c.ok ELSE l.ok IN
    IF ~present THEN <<>>
    ELSE LET t == IF follow THEN f[c.path].kind ELSE f[l.path].kind
             descends == /\ c.ok /\ f[c.path].kind = "dir"
                         /\ (follow \/ depth = 0 \/ t = "dir")
                         /\ (recursive \/ depth < 1) IN
         IF descends
         THEN <<DirEntry(p, t)>> \o WalkEntries(f, p, Listing(f, c.path, order), depth + 1, recursive, follow, order)
         ELSE <<DirEntry(p, t)>>
WalkEntries(f, p, names, depth, recursive, follow, order) ==
    IF names = <<>> THEN <<>>
    ELSE WalkEntry(f, Append(p, Head(names)), depth, recursive, follow, order)
         \o WalkEntries(f, p, Tail(names), depth, recursive, follow, order)

\* the directories between the search root and the file (subdir_name): the
\* characters of the parent path after those of the search root, which ends
\* with a separator, taken component by component
SubdirName(search_dir, path) == SubSeq(Parent(path), Len(search_dir) + 1, Len(Parent(path)))

\* mutant of ExcludedDir: only the directory the file is in is looked at
ExcludedDir_ParentOnly(search_dir, path, excludedir_match) == SubdirName(search_dir, path) # <<>> /\ <<SubdirName(search_dir, path)[Len(SubdirName(search_dir, path))]>> \in excludedir_match

\* excludedir_match.is_match(&subdir_name): some run of consecutive
\* directories between the search root and the file is matched
ExcludedDir(search_dir, path, excludedir_match) == \E i \in 1..Len(SubdirName(search_dir, path)) : \E k \in i..Len(SubdirName(search_dir, path)) : SubSeq(SubdirName(search_dir, path), i, k) \in excludedir_match

\* the test of one walked entry (main.rs 1044-1073)
Matches(e, search_dir, include_match, exclude_match, excludedir_match, follow_symlinks) ==
    /\ ~(e.ftype = "dir" \/ (follow_symlinks /\ e.ftype = "link"))
    /\ HasParent(e.path)
    /\ ~ExcludedDir(search_dir, e.path, excludedir_match)
    /\ FileName(e.path) # EmptyPath
    /\ FileName(e.path)[1] \in include_match
    /\ FileName(e.path)[1] \notin exclude_match

RECURSIVE Paths(_)
Paths(entries) == IF entries = <<>> THEN <<>> ELSE <<Head(entries).path>> \o Paths(Tail(entries))

list_files_matching(f, search_dir, include_pattern, exclude_pattern, excludedir_pattern, recursive, follow_symlinks, order) ==
    LET include_match == Compile(include_pattern)
        exclude_match == Compile(exclude_pattern)
        excludedir_match == CompileDir(excludedir_pattern)
        walk == WalkEntry(f, search_dir, 0, recursive, follow_symlinks, order)
    IN Paths(SelectSeq(walk, LAMBDA e : Matches(e, search_dir, include_match, exclude_match, excludedir_match, follow_symlinks)))

-----------------------------------------------------------------------------
(* run_single_job *)

OPERATION_JOB_BEGIN == "begin"
OPERATION_JOB_END == "end"

JobInfo(r, op, code, num_copy, num_delete) == [run |-> r, operation |-> op, code |-> code, num_copy |-> num_copy, num_delete |-> num_delete]

RemoveLogEntry(r, item, o) == [run |-> r, destination |-> item, outcome |-> o]

\* mutant of DestfileRelative: the file name only, whatever keep_structure
DestfileRelative_Flat(j, item) == FileName(item)

\* mutant of DestfileRelative: the relative path, whatever keep_structure
DestfileRelative_Structure(j, item) == StripPrefix(item, j.source_dir)

\* destfile_relative (main.rs 1491-1499)
DestfileRelative(j, item) == IF j.keep_structure THEN StripPrefix(item, j.source_dir) ELSE FileName(item)

\* destfile_absolute (main.rs 1501)
DestfileAbsolute(j, item) == Join(j.destination_dir, DestfileRelative(j, item))

\* Vec::remove(position): the list without its element at index i
RemoveAt(list, i) == SubSeq(list, 1, i - 1) \o SubSeq(list, i + 1, Len(list))

\* mutant of Reconcile: the deletion candidates are left as enumerated
Reconcile_Skip(list, destfile_absolute) == list

\* the destination about to be written is taken off the deletion candidates
\* (main.rs 1508-1515)
Reconcile(list, destfile_absolute) ==
    IF \E i \in 1..Len(list) : list[i] = destfile_absolute
    THEN RemoveAt(list, CHOOSE i \in 1..Len(list) : list[i] = destfile_absolute /\ \A k \in 1..(i - 1) : list[k] # destfile_absolute)
    ELSE list

\* the source directory cannot be canonicalized or does not exist
\* (main.rs 1414-1415)
SourceDirMissing(f, j) ==
    LET sc == Canonicalize(f, j.source_dir)
        source_directory == IF sc.ok THEN sc.path ELSE EmptyPath
    IN ~Exists(f, source_directory)

\* mutant of DestinationDirMissing: create_directories is tested the wrong
\* way round
DestinationDirMissing_Inverted(f, j) == ~Exists(f, j.destination_dir) /\ j.create_directories

\* the destination directory is missing and is not to be created
\* (main.rs 1431)
DestinationDirMissing(f, j) == ~Exists(f, j.destination_dir) /\ ~j.create_directories

\* directory validation, then the two enumerations (main.rs 1414-1487)
JobStart ==
    /\ pc = "start"
    /\ LET to_copy == list_files_matching(fs, job.source_dir, job.include_pattern, job.exclude_pattern, job.excludedir_pattern, job.recursive, job.follow_symlinks, dir_order)
           to_delete == IF job.remove_others_matching
                        THEN list_files_matching(fs, job.destination_dir, job.include_pattern, job.exclude_pattern, job.excludedir_pattern, job.recursive, job.follow_symlinks, dir_order)
                        ELSE <<>>
       IN IF SourceDirMissing(fs, job)
          THEN /\ msg_log' = Append(msg_log, JobInfo(run, OPERATION_JOB_BEGIN, CJERR_DESTINATION_DIR_NOT_EXISTS, 0, 0))
               /\ result' = Error(CJERR_SOURCE_DIR_NOT_EXISTS)
               /\ pc' = "done"
               /\ UNCHANGED <<files_to_copy, files_to_delete, enumerated>>
          ELSE IF DestinationDirMissing(fs, job)
          THEN /\ msg_log' = Append(msg_log, JobInfo(run, OPERATION_JOB_BEGIN, CJERR_DESTINATION_DIR_NOT_EXISTS, 0, 0))
               /\ result' = Error(CJERR_DESTINATION_DIR_NOT_EXISTS)
               /\ pc' = "done"
               /\ UNCHANGED <<files_to_copy, files_to_delete, enumerated>>
          ELSE /\ files_to_copy' = to_copy
               /\ files_to_delete' = to_delete
               /\ enumerated' = {job.source_dir} \cup (IF job.remove_others_matching THEN {job.destination_dir} ELSE {})
               /\ msg_log' = Append(msg_log, JobInfo(run, OPERATION_JOB_BEGIN, ERR_OK, Len(to_copy), Len(to_delete)))
               /\ pc' = IF to_copy # <<>> THEN "copying" ELSE "deleting"
               /\ UNCHANGED result
    /\ num_files_copied' = 0
    /\ num_files_deleted' = 0
    /\ UNCHANGED <<fs, clock, trash_available, dir_order, job, call, run, copy_log, remove_log, fs_before, run_jobs_vars, listed>>

\* whether an operation that came back with this outcome ends the job
\* (main.rs 1542-1559, 1599-1616)
HaltsJob_Never(outcome, halt_on_errors) == FALSE
HaltsJob_Always(outcome, halt_on_errors) == outcome # Success
HaltsJob_Inverted(outcome, halt_on_errors) == outcome # Success /\ ~halt_on_errors
HaltsJob(outcome, halt_on_errors) == outcome # Success /\ halt_on_errors

\* num_files_copied += 1 / num_files_deleted += 1 in the Success arm
Counted_Always(outcome, n) == n + 1
Counted(outcome, n) == IF outcome = Success THEN n + 1 ELSE n

\* the copy loop goes on while it has candidates, the delete loop follows
AfterCopy_Interleaved(rest) == "deleting"
AfterCopy(rest) == IF rest # <<>> THEN "copying" ELSE "deleting"

\* one iteration of the copy loop (main.rs 1488-1579)
CopyStep ==
    /\ pc = "copying"
    /\ files_to_copy # <<>>
    /\ LET item == Head(files_to_copy)
           rest == Tail(files_to_copy)
           destination == job.destination_dir
           destfile_relative == DestfileRelative(job, item)
           destfile_absolute == DestfileAbsolute(job, item)
           r == copy_file(fs, item, destfile_absolute, job.overwrite, job.skip_newer, job.check_content, job.follow_symlinks, job.create_directories, job.trash_on_overwrite, clock, trash_available)
       IN IF destfile_relative # EmptyPath
          THEN /\ files_to_delete' = Reconcile(files_to_delete, destfile_absolute)
               /\ fs' = r.fs
               /\ clock' = clock + 1
               /\ copy_log' = Append(copy_log, CopyLogEntry(run, item, destfile_absolute, TRUE, r.outcome))
               /\ num_files_copied' = Counted(r.outcome, num_files_copied)
               /\ IF HaltsJob(r.outcome, job.halt_on_errors)
                  THEN /\ result' = Error(CJERR_GENERIC_FAILURE)
                       /\ pc' = "done"
                  ELSE /\ result' = result
                       /\ pc' = AfterCopy(rest)
          ELSE /\ copy_log' = Append(copy_log, CopyLogEntry(run, item, destination, FALSE, Error(CJERR_CANNOT_DETERMINE_DESTFILE)))
               /\ IF job.halt_on_errors
                  THEN /\ result' = Error(CJERR_CANNOT_DETERMINE_DESTFILE)
                       /\ pc' = "done"
                  ELSE /\ result' = result
                       /\ pc' = AfterCopy(rest)
               /\ UNCHANGED <<fs, clock, files_to_delete, num_files_copied>>
    /\ files_to_copy' = Tail(files_to_copy)
    /\ UNCHANGED <<trash_available, dir_order, job, call, run, num_files_deleted, enumerated, remove_log, msg_log, fs_before, run_jobs_vars, listed>>

\* one iteration of the delete loop (main.rs 1581-1618)
DeleteStep ==
    /\ pc = "deleting"
    /\ files_to_delete # <<>>
    /\ LET item == Head(files_to_delete)
           r == remove_file(fs, item, job.follow_symlinks, job.trash_on_delete, trash_available)
       IN /\ fs' = r.fs
          /\ remove_log' = Append(remove_log, RemoveLogEntry(run, item, r.outcome))
          /\ num_files_deleted' = Counted(r.outcome, num_files_deleted)
          /\ IF HaltsJob(r.outcome, job.halt_on_errors)
             THEN /\ result' = Error(CJERR_GENERIC_FAILURE)
                  /\ pc' = "done"
             ELSE UNCHANGED <<result, pc>>
    /\ files_to_delete' = Tail(files_to_delete)
    /\ UNCHANGED <<clock, trash_available, dir_order, job, call, run, files_to_copy, num_files_copied, enumerated, copy_log, msg_log, fs_before, run_jobs_vars, listed>>

\* both loops are over: the counts are reported (main.rs 1619-1651)
JobEnd ==
    /\ pc = "deleting"
    /\ files_to_delete = <<>>
    /\ msg_log' = Append(msg_log, JobInfo(run, OPERATION_JOB_END, ERR_OK, num_files_copied, num_files_deleted))
    /\ result' = Success
    /\ pc' = "done"
    /\ UNCHANGED <<fs, clock, trash_available, dir_order, job, call, run, files_to_copy, files_to_delete, num_files_copied, num_files_deleted, enumerated, copy_log, remove_log, fs_before, run_jobs_vars, listed>>

\* the same job is started again on what the previous run left
Rerun ==
    /\ pc = "done"
    /\ run < MaxRuns
    /\ run' = run + 1
    /\ pc' = "start"
    /\ files_to_copy' = <<>>
    /\ files_to_delete' = <<>>
    /\ num_files_copied' = 0
    /\ num_files_deleted' = 0
    /\ result' = NoOutcome
    /\ enumerated' = {}
    /\ fs_before' = fs
    /\ UNCHANGED <<fs, clock, trash_available, dir_order, job, call, copy_log, remove_log, msg_log, run_jobs_vars, listed>>

-----------------------------------------------------------------------------
(* The jobs that are run *)

SourceFile == FileNode(1, 2, FALSE)

\* the source side: no directory, an empty one, one file, or a file and a
\* file of the same name with other bytes in a subdirectory
SourceSides ==
    {{},
     {<<S, DirNode(FALSE)>>},
     {<<S, DirNode(FALSE)>>, <<S \o <<"a">>, SourceFile>>},
     {<<S, DirNode(FALSE)>>, <<S \o <<"a">>, SourceFile>>,
      <<S \o <<"sub">>, DirNode(FALSE)>>,
      <<S \o <<"sub", "a">>, FileNode(MaxContent, 2, FALSE)>>}}

\* the destination side: no directory, an empty one, or a file a of any
\* content and age next to a file c that no source file is copied to
DestinationSides ==
    {{}, {<<D, DirNode(FALSE)>>}}
    \cup {{<<D, DirNode(FALSE)>>, <<D \o <<"a">>, FileNode(c, m, FALSE)>>,
           <<D \o <<"c">>, FileNode(1, 1, FALSE)>>} :
            c \in Contents, m \in MTimes}

JobTrees == {Tree({<<ROOT, DirNode(FALSE)>>} \cup ss \cup ds) : ss \in SourceSides, ds \in DestinationSides}

DirOrders == {<<"a", "b", "c", "sub">>, <<"sub", "c", "b", "a">>}

Flags == [recursive : BOOLEAN, follow_symlinks : BOOLEAN, overwrite : BOOLEAN, skip_newer : BOOLEAN, check_content : BOOLEAN, remove_others_matching : BOOLEAN, create_directories : BOOLEAN, keep_structure : BOOLEAN, trash_on_delete : BOOLEAN, trash_on_overwrite : BOOLEAN, halt_on_errors : BOOLEAN]

JobOf(fl) ==
    [job_name |-> "j1", source_dir |-> S, destination_dir |-> D,
     include_pattern |-> MatchAll, exclude_pattern |-> MatchNone,
     excludedir_pattern |-> MatchNone,
     recursive |-> fl.recursive, follow_symlinks |-> fl.follow_symlinks,
     overwrite |-> fl.overwrite, skip_newer |-> fl.skip_newer,
     check_content |-> fl.check_content,
     remove_others_matching |-> fl.remove_others_matching,
     create_directories |-> fl.create_directories,
     keep_structure |-> fl.keep_structure,
     trash_on_delete |-> fl.trash_on_delete,
     trash_on_overwrite |-> fl.trash_on_overwrite,
     halt_on_errors |-> fl.halt_on_errors]

InitJobOn(trees, orders, jobs) ==
    /\ fs \in trees
    /\ clock = MaxMTime + 1
    /\ trash_available \in BOOLEAN
    /\ dir_order \in orders
    /\ job \in jobs
    /\ call = NoCall
    /\ pc = "start"
    /\ run = 1
    /\ files_to_copy = <<>>
    /\ files_to_delete = <<>>
    /\ num_files_copied = 0
    /\ num_files_deleted = 0
    /\ result = NoOutcome
    /\ enumerated = {}
    /\ copy_log = <<>>
    /\ remove_log = <<>>
    /\ msg_log = <<>>
    /\ fs_before = fs
    /\ NoRunJobs
    /\ listed = <<>>

InitJob(flags) == InitJobOn(JobTrees, DirOrders, {JobOf(fl) : fl \in flags})

\* one run of a job, for every value of the flags
Init == InitJob(Flags)

Next == JobStart \/ CopyStep \/ DeleteStep \/ JobEnd

Spec == Init /\ [][Next]_vars

\* the job of the idempotence property, run MaxRuns times in a row
IdempotentFlags == {fl \in Flags : fl.overwrite /\ ~fl.skip_newer /\ fl.check_content}

InitTwice == InitJob(IdempotentFlags)

NextTwice == JobStart \/ CopyStep \/ DeleteStep \/ JobEnd \/ Rerun

SpecTwice == InitTwice /\ [][NextTwice]_vars

-----------------------------------------------------------------------------
(* Properties of run_single_job, under Spec and SpecTwice *)

RECURSIVE ToSet(_)
ToSet(seq) == IF seq = <<>> THEN {} ELSE {Head(seq)} \cup ToSet(Tail(seq))

CopiesOf(r) == {e \in ToSet(copy_log) : e.run = r}
RemovalsOf(r) == {e \in ToSet(remove_log) : e.run = r}

\* the message that opened the current run
BeginOf(r) == {m \in ToSet(msg_log) : m.run = r /\ m.operation = OPERATION_JOB_BEGIN}

\* the directories passed validation and the source was enumerated
Validated == job.source_dir \in enumerated

\* the source enumeration of the current run yielded no candidate
NoCandidates == Validated /\ \A m \in BeginOf(run) : m.num_copy = 0

\* the files of the tree under directory d
FilesUnder(f, d) == {p \in DOMAIN f : IsPrefix(d, p) /\ f[p].kind = "file"}

\* C1: a computed copy destination of the run, of a candidate already
\* visited or still to visit, whatever copy_file returned for it, is never
\* passed to remove_file in that run
C1_CopyDestinationNeverRemoved ==
    \A rm \in RemovalsOf(run) :
        /\ \A e \in CopiesOf(run) : e.called => rm.destination # e.destination
        /\ \A i \in 1..Len(files_to_copy) :
              DestfileRelative(job, files_to_copy[i]) # EmptyPath
                 => rm.destination # DestfileAbsolute(job, files_to_copy[i])

C1_Witness ==
    /\ pc = "done" /\ job.remove_others_matching
    /\ \E e \in CopiesOf(run) :
          /\ e.called /\ e.outcome # Success
          /\ e.destination \in FilesUnder(fs_before, job.destination_dir)
          /\ e.destination \in DOMAIN fs
    /\ \E rm \in RemovalsOf(run) : rm.outcome = Success

FirstRunComplete ==
    /\ \A e \in CopiesOf(1) : e.called /\ e.outcome \in {Success, Error(FOERR_DESTINATION_IS_IDENTICAL)}
    /\ \A e1, e2 \in CopiesOf(1) : e1.destination = e2.destination => e1.source = e2.source

C7_NoSourceFiles ==
    (pc = "done" /\ NoCandidates) => result = Error(CJERR_NO_SOURCE_FILES)

\* C8: a job that enumerates no copy candidate copies nothing and removes
\* nothing, also with remove_others_matching and matching destination files
C8_NothingDoneWithoutCandidates ==
    NoCandidates
        => /\ num_files_copied = 0 /\ num_files_deleted = 0
           /\ CopiesOf(run) = {} /\ RemovalsOf(run) = {}
           /\ \A p \in FilesUnder(fs_before, job.destination_dir) : p \in DOMAIN fs

\* C9: source directory present, destination directory missing and
\* create_directories=false: the job returns Error(DestinationDirNotExists)
\* at once; nothing is enumerated, copied or removed
C9_DestinationDirNotExists ==
    (pc # "start" /\ Exists(fs_before, job.source_dir) /\ ~Exists(fs_before, job.destination_dir) /\ ~job.create_directories)
        => /\ pc = "done"
           /\ result = Error(CJERR_DESTINATION_DIR_NOT_EXISTS)
           /\ enumerated = {}
           /\ files_to_copy = <<>> /\ files_to_delete = <<>>
           /\ CopiesOf(run) = {} /\ RemovalsOf(run) = {}
           /\ fs = fs_before

C9_Witness ==
    /\ pc = "done"
    /\ FilesUnder(fs_before, job.source_dir) # {}
    /\ ~Exists(fs_before, job.destination_dir) /\ ~job.create_directories
    /\ job.remove_others_matching
    /\ result = Error(CJERR_DESTINATION_DIR_NOT_EXISTS)

\* C10: the destination handed to copy_file is the destination directory
\* followed by the components of the candidate below the source directory
\* (keep_structure) or by the last component of the candidate alone (flat):
\* /s/sub/a goes to /d/sub/a, respectively to /d/a
C10_DestinationPath ==
    \A e \in ToSet(copy_log) :
        e.called =>
            /\ IsPrefix(job.destination_dir, e.destination)
            /\ IsPrefix(job.source_dir, e.source)
            /\ LET tail == SubSeq(e.destination, Len(job.destination_dir) + 1, Len(e.destination))
               IN IF job.keep_structure
                  THEN job.source_dir \o tail = e.source
                  ELSE tail = <<e.source[Len(e.source)]>>
            /\ e.source = <<RootDir, "s", "sub", "a">>
                 => e.destination = IF job.keep_structure THEN <<RootDir, "d", "sub", "a">> ELSE <<RootDir, "d", "a">>

C10_Witness ==
    /\ job.keep_structure
    /\ \E e \in ToSet(copy_log) :
          /\ e.called /\ e.outcome = Success
          /\ e.source = <<RootDir, "s", "sub", "a">>
          /\ e.destination = <<RootDir, "d", "sub", "a">>
          /\ e.destination \in DOMAIN fs

-----------------------------------------------------------------------------
(* run_jobs and the end of main *)

\* the names the declared jobs are given
JobNames == <<"j1", "j2", "j3", "j4", "j5">>

RECURSIVE Reverse(_)
Reverse(seq) == IF seq = <<>> THEN <<>> ELSE Append(Reverse(Tail(seq)), Head(seq))

\* global_config.active_jobs.contains(&job.job_name)
IsActive_Always(gc, j) == TRUE
IsActive(gc, j) == \E i \in 1..Len(gc.active_jobs) : gc.active_jobs[i] = j.job_name

\* the Error arm of the match on what run_single_job returned: run_jobs
\* returns Err when the global configuration says so
StopsRun_JobFlag(gc, j, outcome) == outcome.tag = "Error" /\ j.halt_on_errors
StopsRun(gc, j, outcome) == outcome.tag = "Error" /\ gc.halt_on_errors

JobOutcome(i, name, o) == [index |-> i, job_name |-> name, outcome |-> o]

\* the head of the loop over job_configs (main.rs 1687-1689): a job whose
\* name is listed is run, any other is passed over
RunNextJob ==
    /\ pc = "idle"
    /\ exit_status = "running"
    /\ job_index <= Len(job_configs)
    /\ IF IsActive(global_config, job_configs[job_index])
       THEN /\ job' = job_configs[job_index]
            /\ run' = job_index
            /\ pc' = "start"
            /\ files_to_copy' = <<>>
            /\ files_to_delete' = <<>>
            /\ num_files_copied' = 0
            /\ num_files_deleted' = 0
            /\ result' = NoOutcome
            /\ enumerated' = {}
            /\ fs_before' = fs
            /\ UNCHANGED job_index
       ELSE /\ job_index' = job_index + 1
            /\ UNCHANGED <<job, run, pc, files_to_copy, files_to_delete, num_files_copied, num_files_deleted, result, enumerated, fs_before>>
    /\ UNCHANGED <<fs, clock, trash_available, dir_order, call, copy_log, remove_log, msg_log, global_config, job_configs, job_outcomes, exit_status, listed>>

\* run_single_job returned (main.rs 1689-1713): on an Error with the global
\* halt_on_errors, run_jobs returns Err and main exits with status 2
RunJobReturn ==
    /\ pc = "done"
    /\ exit_status = "running"
    /\ job_outcomes' = Append(job_outcomes, JobOutcome(job_index, job.job_name, result))
    /\ IF StopsRun(global_config, job, result)
       THEN /\ exit_status' = "failure"
            /\ pc' = "exited"
            /\ UNCHANGED job_index
       ELSE /\ job_index' = job_index + 1
            /\ pc' = "idle"
            /\ UNCHANGED exit_status
    /\ UNCHANGED <<fs, clock, trash_available, dir_order, job, call, run, files_to_copy, files_to_delete, num_files_copied, num_files_deleted, result, enumerated, copy_log, remove_log, msg_log, fs_before, global_config, job_configs, listed>>

\* the loop is over: run_jobs returns Ok(()) and so does main
\* (main.rs 1716, 1810-1823)
RunEnd ==
    /\ pc = "idle"
    /\ exit_status = "running"
    /\ job_index > Len(job_configs)
    /\ exit_status' = "ok"
    /\ pc' = "exited"
    /\ UNCHANGED <<fs, clock, trash_available, dir_order, job, call, run, files_to_copy, files_to_delete, num_files_copied, num_files_deleted, result, enumerated, copy_log, remove_log, msg_log, fs_before, global_config, job_configs, job_index, job_outcomes, listed>>

\* the declared jobs copy the only source file without overwriting and
\* remove the other files of the destination, or name a source directory
\* that does not exist; each has its own halt_on_errors
RunJobKinds == {[DefaultJob EXCEPT !.source_dir = sd, !.remove_others_matching = TRUE, !.halt_on_errors = h] : sd \in {S, ROOT \o <<"none">>}, h \in BOOLEAN}

\* MaxJobs jobs, the last of which may bear the name of the first
JobLists ==
    {[k \in 1..MaxJobs |-> [kinds[k] EXCEPT !.job_name = JobNames[IF k = MaxJobs /\ twice THEN 1 ELSE k]]] :
        kinds \in [1..MaxJobs -> RunJobKinds], twice \in BOOLEAN}

\* the lists of active names: none, one name, a pair in any order or twice
\* the same, all the names from the last to the first
ActiveLists ==
    {<<>>, Reverse(SubSeq(JobNames, 1, MaxJobs))}
    \cup {<<JobNames[a]>> : a \in 1..MaxJobs}
    \cup {<<JobNames[a], JobNames[b]>> : a, b \in 1..MaxJobs}

RunTrees ==
    {Tree({<<ROOT, DirNode(FALSE)>>, <<S, DirNode(FALSE)>>, <<S \o <<"a">>, SourceFile>>, <<D, DirNode(ro)>>, <<D \o <<"c">>, FileNode(1, 1, FALSE)>>} \cup da) :
        ro \in BOOLEAN,
        da \in {{}, {<<D \o <<"a">>, FileNode(MaxContent, 1, FALSE)>>}}}

\* extract_config accepts a list of active names only if every one of them
\* is the name of a declared job (main.rs 975-980)
InitRun ==
    /\ fs \in RunTrees
    /\ clock = MaxMTime + 1
    /\ trash_available = TRUE
    /\ dir_order = <<"a", "b", "c", "sub">>
    /\ job_configs \in JobLists
    /\ global_config \in [active_jobs : ActiveLists, halt_on_errors : BOOLEAN]
    /\ \A i \in 1..Len(global_config.active_jobs) : \E k \in 1..Len(job_configs) : job_configs[k].job_name = global_config.active_jobs[i]
    /\ job_index = 1
    /\ job_outcomes = <<>>
    /\ exit_status = "running"
    /\ job = DefaultJob
    /\ call = NoCall
    /\ pc = "idle"
    /\ run = 0
    /\ files_to_copy = <<>>
    /\ files_to_delete = <<>>
    /\ num_files_copied = 0
    /\ num_files_deleted = 0
    /\ result = NoOutcome
    /\ enumerated = {}
    /\ copy_log = <<>>
    /\ remove_log = <<>>
    /\ msg_log = <<>>
    /\ fs_before = fs
    /\ listed = <<>>

NextRun == RunNextJob \/ JobStart \/ CopyStep \/ DeleteStep \/ JobEnd \/ RunJobReturn \/ RunEnd

SpecRun == InitRun /\ [][NextRun]_vars

\* the positions in job_configs of the jobs that are named in active_jobs
ActiveIndexes == {k \in 1..Len(job_configs) : \E i \in 1..Len(global_config.active_jobs) : global_config.active_jobs[i] = job_configs[k].job_name}

\* the positions of the jobs run_single_job has been entered for
StartedIndexes == {m.run : m \in ToSet(msg_log)} \cup {e.run : e \in ToSet(copy_log)} \cup {e.run : e \in ToSet(remove_log)} \cup (IF pc \in {"start", "copying", "deleting", "done"} THEN {job_index} ELSE {})

\* C11: run_single_job is entered only for declared jobs whose name is in
\* active_jobs, for each of them at most once, and in the order of the
\* declarations whatever the order of the names in active_jobs; nothing is
\* enumerated, copied or removed on behalf of a job that is not named.
C11_OnlyActiveJobsInDeclarationOrder ==
    /\ StartedIndexes \subseteq ActiveIndexes
    /\ \A i \in 1..Len(job_outcomes) : job_outcomes[i].index \in ActiveIndexes
    /\ \A i, k \in 1..Len(job_outcomes) : i < k => job_outcomes[i].index < job_outcomes[k].index
    /\ \A i \in 1..Len(msg_log) : \A k \in 1..Len(msg_log) : (i < k /\ msg_log[i].operation = OPERATION_JOB_BEGIN /\ msg_log[k].operation = OPERATION_JOB_BEGIN) => msg_log[i].run < msg_log[k].run

\* two jobs were run in the order of their declarations, which is not the
\* order of active_jobs, a job declared between them was passed over, and a
\* file was copied
C11_Witness ==
    /\ exit_status = "ok"
    /\ Len(job_outcomes) = 2
    /\ job_outcomes[1].index = 1
    /\ job_outcomes[2].index = 3
    /\ global_config.active_jobs = <<"j3", "j1">>
    /\ \E e \in ToSet(copy_log) : e.outcome = Success

\* the positions of the active jobs declared after position k
ActiveAfter(k) == {n \in ActiveIndexes : n > k}

\* C12: when a job that was run returned an Error and the global
\* halt_on_errors is set, no later job is entered and the process ends in
\* failure; when it is not set the process does not fail and the next active
\* job in declaration order, if any, is run, whatever the halt_on_errors of
\* the job that failed.
C12_GlobalHaltDecides ==
    \A i \in 1..Len(job_outcomes) :
        job_outcomes[i].outcome.tag = "Error" =>
            IF global_config.halt_on_errors
            THEN /\ i = Len(job_outcomes)
                 /\ exit_status = "failure"
                 /\ \A n \in StartedIndexes : n <= job_outcomes[i].index
            ELSE /\ exit_status # "failure"
                 /\ \A n \in ActiveAfter(job_outcomes[i].index) :
                        \/ \E m \in ActiveAfter(job_outcomes[i].index) : m < n
                        \/ n \in StartedIndexes
                        \/ exit_status = "running" /\ pc = "idle" /\ job_index <= n

\* without the global flag, a job that halts on its own errors failed on a
\* copy and the job declared after it was run all the same
C12_Witness ==
    /\ ~global_config.halt_on_errors
    /\ Len(job_outcomes) >= 2
    /\ job_outcomes[1].outcome = Error(CJERR_GENERIC_FAILURE)
    /\ job_configs[job_outcomes[1].index].halt_on_errors
    /\ exit_status = "ok"

\* C15: the process ends in failure exactly when a job that was run returned
\* an Error, and ends well when every job that was run returned Success.
C15_FailureIffSomeJobFailed ==
    exit_status \in {"ok", "failure"} =>
        (exit_status = "failure" <=> \E i \in 1..Len(job_outcomes) : job_outcomes[i].outcome.tag = "Error")

-----------------------------------------------------------------------------
(* Jobs whose operations fail *)

\* two source files; a destination directory that may be read-only, with a
\* file a of any content and age or none, a file b or none, and two files c
\* and x that no source file is copied to
HaltTrees ==
    {Tree({<<ROOT, DirNode(FALSE)>>, <<S, DirNode(FALSE)>>,
           <<S \o <<"a">>, FileNode(1, 2, FALSE)>>,
           <<S \o <<"b">>, FileNode(MaxContent, 2, FALSE)>>,
           <<D, DirNode(ro)>>,
           <<D \o <<"c">>, FileNode(1, 1, FALSE)>>,
           <<D \o <<"x">>, FileNode(1, 1, FALSE)>>} \cup da \cup db) :
        ro \in BOOLEAN,
        db \in {{}, {<<D \o <<"b">>, FileNode(1, 1, FALSE)>>}},
        da \in {{}} \cup {{<<D \o <<"a">>, FileNode(c, m, FALSE)>>} : c \in Contents, m \in MTimes}}

HaltOrders == {<<"a", "b", "c", "x">>, <<"x", "c", "b", "a">>}

\* the directories are not walked into and exist: the flags that are left
HaltFlags == {fl \in Flags : ~fl.recursive /\ ~fl.follow_symlinks /\ ~fl.create_directories /\ ~fl.keep_structure}

InitHalt == InitJobOn(HaltTrees, HaltOrders, {JobOf(fl) : fl \in HaltFlags})

SpecHalt == InitHalt /\ [][Next]_vars

\* the copy candidates and the deletion candidates of the current run, as
\* the enumerations made when it started gave them
CopyCandidates == list_files_matching(fs_before, job.source_dir, job.include_pattern, job.exclude_pattern, job.excludedir_pattern, job.recursive, job.follow_symlinks, dir_order)

DeletionCandidates ==
    IF job.remove_others_matching
    THEN list_files_matching(fs_before, job.destination_dir, job.include_pattern, job.exclude_pattern, job.excludedir_pattern, job.recursive, job.follow_symlinks, dir_order)
    ELSE <<>>

\* the deletion candidates that are the computed destination of no copy
\* candidate
DeletionsLeft == SelectSeq(DeletionCandidates, LAMBDA p : \A i \in 1..Len(CopyCandidates) : DestfileAbsolute(job, CopyCandidates[i]) # p)

IsPrefixOf(a, b) == Len(a) <= Len(b) /\ \A i \in 1..Len(a) : a[i] = b[i]

\* C13: in a job with halt_on_errors, the first copy_file or remove_file
\* call that returns an Error is the last call of the job, which returns an
\* Error; after a copy error no remove_file call is made at all.
C13_HaltOnFirstError ==
    job.halt_on_errors =>
        /\ \A i \in 1..Len(copy_log) :
              copy_log[i].outcome # Success =>
                  /\ i = Len(copy_log)
                  /\ remove_log = <<>>
                  /\ pc = "done"
                  /\ result.tag = "Error"
        /\ \A i \in 1..Len(remove_log) :
              remove_log[i].outcome # Success =>
                  /\ i = Len(remove_log)
                  /\ pc = "done"
                  /\ result.tag = "Error"

\* the first candidate could not be copied: the job is over with a
\* candidate and both deletion candidates not visited
C13_Witness ==
    /\ job.halt_on_errors
    /\ pc = "done"
    /\ Len(copy_log) = 1
    /\ copy_log[1].called
    /\ copy_log[1].outcome # Success
    /\ files_to_copy # <<>>
    /\ Len(files_to_delete) = 2
    /\ result.tag = "Error"

\* C14: in a job without halt_on_errors that passed validation, the
\* copy_file calls are made for the copy candidates in their order, one call
\* each, and the remove_file calls for the deletion candidates left by the
\* reconciliation, one call each; when the job is over no candidate is left
\* out.
C14_EveryCandidateOnce ==
    (~job.halt_on_errors /\ Validated) =>
        /\ \A i \in 1..Len(copy_log) : copy_log[i].called <=> DestfileRelative(job, copy_log[i].source) # EmptyPath
        /\ IsPrefixOf([i \in 1..Len(copy_log) |-> copy_log[i].source], CopyCandidates)
        /\ IsPrefixOf([i \in 1..Len(remove_log) |-> remove_log[i].destination], DeletionsLeft)
        /\ pc = "done" => /\ Len(copy_log) = Len(CopyCandidates)
                          /\ Len(remove_log) = Len(DeletionsLeft)

\* both copies and both removals failed, and all four calls were made
C14_Witness ==
    /\ ~job.halt_on_errors
    /\ pc = "done"
    /\ Len(copy_log) = 2
    /\ Len(remove_log) = 2
    /\ \A i \in 1..2 : copy_log[i].outcome # Success /\ remove_log[i].outcome # Success

-----------------------------------------------------------------------------
(* The order of the checks of copy_file *)

\* what the paths of the call are before they are resolved
SourceEntry == SymlinkMetadata(fs_before, call.source)
DestinationEntry == SymlinkMetadata(fs_before, call.destination)
SourceIsLink == SourceEntry.ok /\ fs_before[SourceEntry.path].kind = "link"
DestinationIsLink == DestinationEntry.ok /\ fs_before[DestinationEntry.path].kind = "link"

\* the outcomes the stated order of the checks allows for the call, the two
\* symbolic link checks being part of the order or not
OutcomesInOrder(link_checks) ==
    IF ~MetadataOk(fs_before, call.source) THEN {Error(FOERR_SOURCE_NOT_ACCESSIBLE)}
    ELSE IF SourceCanon.path = (IF DestinationCanon.ok THEN DestinationCanon.path ELSE call.destination) THEN {Error(FOERR_DESTINATION_IS_ITSELF)}
    ELSE IF StatIsDir(SourceStat) THEN {Error(FOERR_SOURCE_IS_DIR)}
    ELSE IF link_checks /\ SourceIsLink /\ ~job.follow_symlinks THEN {Error(FOERR_SOURCE_IS_SYMLINK)}
    ELSE IF MetadataOk(fs_before, call.destination)
    THEN IF ~job.overwrite THEN {Error(FOERR_DESTINATION_EXISTS)}
         ELSE IF StatIsDir(DestinationStat) THEN {Error(FOERR_DESTINATION_IS_DIR)}
         ELSE IF link_checks /\ DestinationIsLink /\ ~job.follow_symlinks THEN {Error(FOERR_DESTINATION_IS_SYMLINK)}
         ELSE IF job.skip_newer /\ SourceStat.mtime <= DestinationStat.mtime THEN {Error(FOERR_DESTINATION_IS_NEWER)}
         ELSE IF job.check_content /\ SourceStat.content = DestinationStat.content THEN {Error(FOERR_DESTINATION_IS_IDENTICAL)}
         ELSE {Success, Error(FOERR_DESTINATION_IS_READONLY), Error(FOERR_GENERIC_FAILURE)}
    ELSE IF \/ ~HasParent(call.destination)
            \/ MetadataOk(fs_before, Parent(call.destination)) /\ ~StatIsDir(Metadata(fs_before, Parent(call.destination)))
            \/ ~MetadataOk(fs_before, Parent(call.destination)) /\ ~job.create_directories
            \/ ~MetadataOk(fs_before, Parent(call.destination)) /\ ~CreateDirAll(fs_before, Parent(call.destination)).ok
    THEN {Error(FOERR_CANNOT_CREATE_DIR)}
    ELSE {Success, Error(FOERR_DESTINATION_IS_READONLY), Error(FOERR_GENERIC_FAILURE)}

\* the bytes of the source were written where the destination path leads
BytesCopied ==
    /\ MetadataOk(fs, call.destination)
    /\ Metadata(fs, call.destination).kind = "file"
    /\ Metadata(fs, call.destination).content = SourceStat.content

\* C16: copy_file returns the Error of the first check that fails in the
\* order SourceNotAccessible, DestinationIsItself, SourceIsDir,
\* SourceIsSymlink, then for a destination that exists DestinationExists,
\* DestinationIsDir, DestinationIsSymlink, DestinationIsNewer,
\* DestinationIsIdentical, for one that does not CannotCreateDir, and then
\* DestinationIsReadonly or GenericFailure when the copy fails; Success is
\* returned only when the bytes were copied.
C16_FirstFailingCheck ==
    Returned =>
        /\ Outcome \in OutcomesInOrder(TRUE)
        /\ Outcome = Success => BytesCopied

\* C17: with follow_symlinks=false, a source that is a symbolic link to a
\* regular file gives Error(SourceIsSymlink) and nothing is written; a
\* destination that is a symbolic link, with overwrite=true and a source
\* that passes its checks, gives Error(DestinationIsSymlink).
C17_SymlinksRefused ==
    (Returned /\ ~job.follow_symlinks) =>
        /\ (SourceIsLink /\ MetadataOk(fs_before, call.source) /\ SourceStat.kind = "file") =>
              (Outcome = Error(FOERR_SOURCE_IS_SYMLINK) /\ fs = fs_before)
        /\ (~SourceIsLink /\ SourcePasses /\ DestinationIsLink /\ MetadataOk(fs_before, call.destination) /\ job.overwrite) =>
              Outcome = Error(FOERR_DESTINATION_IS_SYMLINK)

-----------------------------------------------------------------------------
(* list_files_matching called on its own *)

\* the search root holds a.txt and b.log, may hold a file whose name is one
\* asterisk, a symbolic link l to a.txt or to nothing, and a directory sub
\* with a file, in which there may be a directory deep with two files
ListTrees ==
    {Tree({<<ROOT, DirNode(FALSE)>>, <<S, DirNode(FALSE)>>,
           <<S \o <<"a.txt">>, FileNode(1, 1, FALSE)>>,
           <<S \o <<"b.log">>, FileNode(1, 1, FALSE)>>} \cup star \cup link \cup dirs) :
        star \in {{}, {<<S \o <<"*">>, FileNode(1, 1, FALSE)>>}},
        link \in {{}, {<<S \o <<"l">>, LinkNode(S \o <<"a.txt">>)>>}, {<<S \o <<"l">>, LinkNode(S \o <<"gone">>)>>}},
        dirs \in {{},
                  {<<S \o <<"sub">>, DirNode(FALSE)>>, <<S \o <<"sub", "a.txt">>, FileNode(1, 1, FALSE)>>},
                  {<<S \o <<"sub">>, DirNode(FALSE)>>, <<S \o <<"sub", "a.txt">>, FileNode(1, 1, FALSE)>>,
                   <<S \o <<"sub", "deep">>, DirNode(FALSE)>>,
                   <<S \o <<"sub", "deep", "a.txt">>, FileNode(1, 1, FALSE)>>,
                   <<S \o <<"sub", "deep", "b.log">>, FileNode(1, 1, FALSE)>>}}}

ListOrders == {<<"*", "a.txt", "b.log", "deep", "l", "sub">>, <<"sub", "l", "deep", "b.log", "a.txt", "*">>}

\* a pattern that is not a regular expression
Invalid == [ok |-> FALSE, names |-> {}, spans |-> {}]

\* the names that end in .txt; every name
TxtOnly == [ok |-> TRUE, names |-> {"a.txt"}, spans |-> {}]
AnyName == [ok |-> TRUE, names |-> {"*", "a.txt", "b.log", "l"}, spans |-> {}]

IncludePatterns == {TxtOnly, AnyName, MatchNone, Invalid}
ExcludePatterns == {MatchNone, [ok |-> TRUE, names |-> {"b.log"}, spans |-> {}], [ok |-> TRUE, names |-> {"a.txt", "l"}, spans |-> {}], Invalid}

\* no directory, the directories named sub, those named deep, the directory
\* deep of a directory sub (the pattern sub/deep)
ExcludedirPatterns ==
    {MatchNone, Invalid,
     [ok |-> TRUE, names |-> {"sub"}, spans |-> {}],
     [ok |-> TRUE, names |-> {"deep"}, spans |-> {}],
     [ok |-> TRUE, names |-> {}, spans |-> {<<"sub", "deep">>}]}

InitList ==
    /\ fs \in ListTrees
    /\ clock = MaxMTime + 1
    /\ trash_available = TRUE
    /\ dir_order \in ListOrders
    /\ job = DefaultJob
    /\ call \in [search_dir : {S}, include_pattern : IncludePatterns, exclude_pattern : ExcludePatterns, excludedir_pattern : ExcludedirPatterns, recursive : BOOLEAN, follow_symlinks : BOOLEAN]
    /\ pc = "list"
    /\ run = 0
    /\ files_to_copy = <<>>
    /\ files_to_delete = <<>>
    /\ num_files_copied = 0
    /\ num_files_deleted = 0
    /\ result = NoOutcome
    /\ enumerated = {}
    /\ copy_log = <<>>
    /\ remove_log = <<>>
    /\ msg_log = <<>>
    /\ fs_before = fs
    /\ NoRunJobs
    /\ listed = <<>>

ListCall ==
    /\ pc = "list"
    /\ listed' = list_files_matching(fs, call.search_dir, call.include_pattern, call.exclude_pattern, call.excludedir_pattern, call.recursive, call.follow_symlinks, dir_order)
    /\ pc' = "listed"
    /\ UNCHANGED <<fs, clock, trash_available, dir_order, job, call, run, files_to_copy, files_to_delete, num_files_copied, num_files_deleted, result, enumerated, copy_log, remove_log, msg_log, fs_before, run_jobs_vars>>

NextList == ListCall

SpecList == InitList /\ [][NextList]_vars

Listed == pc = "listed"

\* C18: list_files_matching yields no directory, and yields a symbolic link
\* only when follow_symlinks is true.
C18_NoDirectoryNoUnfollowedLink ==
    Listed =>
        \A i \in 1..Len(listed) :
            /\ fs[listed[i]].kind # "dir"
            /\ fs[listed[i]].kind = "link" => call.follow_symlinks

\* the three patterns of the call are regular expressions
ValidPatterns == call.include_pattern.ok /\ call.exclude_pattern.ok /\ call.excludedir_pattern.ok

\* the entries under the search root that are not directories
NonDirectoryEntries == {p \in DOMAIN fs : IsPrefix(call.search_dir, p) /\ Len(p) > Len(call.search_dir) /\ fs[p].kind # "dir"}

\* those of them the walk can read: with follow_symlinks a symbolic link is
\* read through, and one that leads nowhere is an error of the walk
ReadableEntries == {p \in NonDirectoryEntries : call.follow_symlinks => (MetadataOk(fs, p) /\ Metadata(fs, p).kind # "dir")}

ImmediateChild(p) == Len(p) = Len(call.search_dir) + 1

\* the names of the directories between the search root and the entry
DirectoriesAbove(p) == SubSeq(p, Len(call.search_dir) + 1, Len(p) - 1)

NameIncluded(p) == p[Len(p)] \in call.include_pattern.names /\ p[Len(p)] \notin call.exclude_pattern.names

\* a directory between the search root and the entry has a name that the
\* pattern of the excluded directories matches
DirectoryNameExcluded(p) == \E i \in 1..Len(DirectoriesAbove(p)) : DirectoriesAbove(p)[i] \in call.excludedir_pattern.names

\* some consecutive directories between the search root and the entry,
\* written with the separator between them, are matched by the pattern of
\* the excluded directories from a separator to a separator
DirectoryRunExcluded(p) ==
    \E i \in 1..Len(DirectoriesAbove(p)) : \E k \in i..Len(DirectoriesAbove(p)) :
        \/ i = k /\ DirectoriesAbove(p)[i] \in call.excludedir_pattern.names
        \/ i < k /\ SubSeq(DirectoriesAbove(p), i, k) \in call.excludedir_pattern.spans

\* the scenario: a.txt and b.log in the root, the names in .txt included,
\* none excluded, no recursion
TxtScenario ==
    (call.include_pattern = TxtOnly /\ call.exclude_pattern = MatchNone /\ ~call.recursive) =>
        listed = <<call.search_dir \o <<"a.txt">>>>

C20_InvalidPatternMatchesNothing ==
    Listed =>
        /\ ~call.include_pattern.ok => listed = <<>>
        /\ ~call.exclude_pattern.ok => listed = list_files_matching(fs, call.search_dir, call.include_pattern, MatchNone, call.excludedir_pattern, call.recursive, call.follow_symlinks, dir_order)
        /\ ~call.excludedir_pattern.ok => listed = list_files_matching(fs, call.search_dir, call.include_pattern, call.exclude_pattern, MatchNone, call.recursive, call.follow_symlinks, dir_order)

-----------------------------------------------------------------------------
(* Jobs whose directories are not two directories apart *)

\* a source tree with a file and a subdirectory of two files, and a
\* destination directory that is empty or holds a file
PlaceTrees ==
    {Tree({<<ROOT, DirNode(FALSE)>>, <<S, DirNode(FALSE)>>,
           <<S \o <<"a">>, FileNode(1, 2, FALSE)>>,
           <<S \o <<"sub">>, DirNode(FALSE)>>,
           <<S \o <<"sub", "a">>, FileNode(MaxContent, 2, FALSE)>>,
           <<S \o <<"sub", "b">>, FileNode(1, 2, FALSE)>>,
           <<D, DirNode(FALSE)>>} \cup da) :
        da \in {{}, {<<D \o <<"a">>, FileNode(1, 1, FALSE)>>}}}

\* source_dir and destination_dir: apart, the same directory, the
\* destination inside the source, the source inside the destination, and a
\* source_dir that is the path of a regular file
Places ==
    {<<S, D>>, <<S, S>>, <<S, S \o <<"sub">>>>, <<S \o <<"sub">>, S>>, <<S \o <<"a">>, D>>}

PlaceFlags == {fl \in Flags : ~fl.follow_symlinks /\ ~fl.skip_newer /\ ~fl.check_content /\ ~fl.create_directories /\ ~fl.trash_on_delete /\ ~fl.trash_on_overwrite}

PlaceJobs == {[JobOf(fl) EXCEPT !.source_dir = pl[1], !.destination_dir = pl[2]] : fl \in PlaceFlags, pl \in Places}

InitPlaces == InitJobOn(PlaceTrees, DirOrders, PlaceJobs)

SpecPlaces == InitPlaces /\ [][Next]_vars

\* C21: for a copy candidate whose relative destination is empty copy_file
\* is not called and CannotDetermineDestFile is its code; with
\* halt_on_errors the job ends there and returns Error(GenericFailure),
\* without it the job goes on.
C21_EmptyDestinationHalts ==
    \A i \in 1..Len(copy_log) :
        DestfileRelative(job, copy_log[i].source) = EmptyPath =>
            /\ ~copy_log[i].called
            /\ copy_log[i].outcome = Error(CJERR_CANNOT_DETERMINE_DESTFILE)
            /\ job.halt_on_errors => (i = Len(copy_log) /\ pc = "done" /\ result = Error(CJERR_GENERIC_FAILURE))
            /\ ~job.halt_on_errors => (pc # "done" \/ result = Success)

\* C26: no path enumerated from the source of the job is passed to
\* remove_file in the same run, wherever the two directories are.
C26_NoCopyCandidateRemoved ==
    \A i \in 1..Len(remove_log) : \A k \in 1..Len(CopyCandidates) : remove_log[i].destination # CopyCandidates[k]

-----------------------------------------------------------------------------
(* remove_file called on its own *)

\* a file /s/a apart, a directory /d that may be read-only with a file t,
\* and /d/x of every kind or none
RemoveTrees ==
    {Tree(BaseDirs \cup {<<D, DirNode(ro)>>,
                         <<S \o <<"a">>, FileNode(1, 1, FALSE)>>,
                         <<D \o <<"t">>, FileNode(MaxContent, 2, FALSE)>>} \cup dx) :
        ro \in BOOLEAN,
        dx \in {{}} \cup {{<<D \o <<"x">>, n>>} : n \in DestinationNodes}}

RemoveDestinations == {D \o <<"x">>, D \o <<"t">>, D \o <<"none">>}

InitRemove ==
    /\ fs \in RemoveTrees
    /\ clock = MaxMTime + 1
    /\ trash_available \in BOOLEAN
    /\ dir_order = <<>>
    /\ \E fl, td \in BOOLEAN : job = [DefaultJob EXCEPT !.follow_symlinks = fl, !.trash_on_delete = td]
    /\ call \in [source : {EmptyPath}, destination : RemoveDestinations]
    /\ pc = "call"
    /\ run = 0
    /\ files_to_copy = <<>>
    /\ files_to_delete = <<>>
    /\ num_files_copied = 0
    /\ num_files_deleted = 0
    /\ result = NoOutcome
    /\ enumerated = {}
    /\ copy_log = <<>>
    /\ remove_log = <<>>
    /\ msg_log = <<>>
    /\ fs_before = fs
    /\ NoRunJobs
    /\ listed = <<>>

RemoveCall ==
    /\ pc = "call"
    /\ LET r == remove_file(fs, call.destination, job.follow_symlinks, job.trash_on_delete, trash_available)
       IN /\ fs' = r.fs
          /\ remove_log' = Append(remove_log, RemoveLogEntry(run, call.destination, r.outcome))
    /\ fs_before' = fs
    /\ pc' = "ret"
    /\ UNCHANGED <<clock, trash_available, dir_order, job, call, run, files_to_copy, files_to_delete, num_files_copied, num_files_deleted, result, enumerated, copy_log, msg_log, run_jobs_vars, listed>>

NextRemove == RemoveCall

SpecRemove == InitRemove /\ [][NextRemove]_vars

Removed == pc = "ret" /\ remove_log # <<>>
RemoveOutcome == remove_log[1].outcome

\* C22: remove_file returns Error(DestinationNotAccessible) for a path that
\* does not exist or cannot be read, else Error(DestinationIsDir) for a
\* directory, else Error(DestinationIsSymlink) for a symbolic link when
\* follow_symlinks is false, else Success when the trash or the permanent
\* delete removed the file and Error(DestinationNotAccessible) when neither
\* did; on every Error nothing is removed.
C22_RemoveOutcome ==
    Removed =>
        /\ RemoveOutcome =
              (IF ~MetadataOk(fs_before, call.destination) THEN Error(FOERR_DESTINATION_NOT_ACCESSIBLE)
               ELSE IF StatIsDir(DestinationStat) THEN Error(FOERR_DESTINATION_IS_DIR)
               ELSE IF DestinationIsLink /\ ~job.follow_symlinks THEN Error(FOERR_DESTINATION_IS_SYMLINK)
               ELSE IF fs # fs_before THEN Success
               ELSE Error(FOERR_DESTINATION_NOT_ACCESSIBLE))
        /\ RemoveOutcome # Success => fs = fs_before

\* C27: remove_file removes at most the entry at the path it was given:
\* every other entry, the target of a symbolic link among them, is left as
\* it was.
C27_OnlyTheGivenPath ==
    Removed => \A p \in DOMAIN fs_before : p # call.destination => (p \in DOMAIN fs /\ fs[p] = fs_before[p])

-----------------------------------------------------------------------------
(* copy_file on a destination that exists *)

\* the source file /s/a can be read or not; the destination /d/x is a file
\* of any content, age and mode, in a directory that may be read-only
OverwriteTrees ==
    {Tree(BaseDirs \cup {<<D, DirNode(ro)>>, <<S \o <<"a">>, sa>>, <<D \o <<"x">>, FileNode(c, m, fro)>>}) :
        ro \in BOOLEAN, fro \in BOOLEAN, c \in Contents, m \in MTimes,
        sa \in {FileNode(1, 2, FALSE), UnreadableFile(1, 2)}}

InitOverwrite ==
    /\ fs \in OverwriteTrees
    /\ clock = MaxMTime + 1
    /\ trash_available \in BOOLEAN
    /\ dir_order = <<>>
    /\ \E ow, sn, cc, fl, cd, tr \in BOOLEAN :
          job = [DefaultJob EXCEPT !.overwrite = ow, !.skip_newer = sn,
                    !.check_content = cc, !.follow_symlinks = fl,
                    !.create_directories = cd, !.trash_on_overwrite = tr]
    /\ call \in [source : {S \o <<"a">>}, destination : {D \o <<"x">>, D \o <<"none">>}]
    /\ pc = "call"
    /\ run = 0
    /\ files_to_copy = <<>>
    /\ files_to_delete = <<>>
    /\ num_files_copied = 0
    /\ num_files_deleted = 0
    /\ result = NoOutcome
    /\ enumerated = {}
    /\ copy_log = <<>>
    /\ remove_log = <<>>
    /\ msg_log = <<>>
    /\ fs_before = fs
    /\ NoRunJobs
    /\ listed = <<>>

SpecOverwrite == InitOverwrite /\ [][NextCopy]_vars

\* C28: when copy_file returns an Error, a destination file that existed
\* before the call is still at the destination path with the content it
\* had, whatever the flags.
C28_FailedCopyKeepsDestination ==
    (Returned /\ Outcome.tag = "Error" /\ Exists(fs_before, call.destination)) =>
        /\ MetadataOk(fs, call.destination)
        /\ Metadata(fs, call.destination).content = DestinationStat.content

-----------------------------------------------------------------------------
(* The counters and the phases of a job *)

\* the calls of the current run that returned Success
SuccessfulCopies == {i \in 1..Len(copy_log) : copy_log[i].run = run /\ copy_log[i].called /\ copy_log[i].outcome = Success}
SuccessfulRemovals == {i \in 1..Len(remove_log) : remove_log[i].run = run /\ remove_log[i].outcome = Success}

\* the message that closed the current run
EndOf(r) == {m \in ToSet(msg_log) : m.run = r /\ m.operation = OPERATION_JOB_END}

\* C23: at every point of a run the copied counter is the number of
\* copy_file calls of the run that returned Success and the deleted counter
\* the number of remove_file calls that did; they are at most the number of
\* copy candidates and of deletion candidates left by the reconciliation,
\* and they are the counts reported when the job ends.
C23_CountersCountSuccesses ==
    /\ num_files_copied = Cardinality(SuccessfulCopies)
    /\ num_files_deleted = Cardinality(SuccessfulRemovals)
    /\ Validated => (num_files_copied <= Len(CopyCandidates) /\ num_files_deleted <= Len(DeletionsLeft))
    /\ \A m \in EndOf(run) : m.num_copy = num_files_copied /\ m.num_delete = num_files_deleted

\* a job ended after one copy that failed, one that succeeded and two
\* removals that succeeded, and reported 1 and 2
C23_Witness ==
    /\ pc = "done"
    /\ Len(copy_log) = 2
    /\ copy_log[1].outcome # Success
    /\ num_files_copied = 1
    /\ num_files_deleted = 2
    /\ \E m \in EndOf(run) : m.num_copy = 1 /\ m.num_delete = 2

\* C24: the phases of a job follow one another: nothing is copied or
\* removed before validation passed and both enumerations were made, every
\* copy_file call of the job is made before its first remove_file call, and
\* every deletion candidate is a path that existed when the enumerations
\* were made, so that a file the job created at a new path is none.
C24_PhasesInOrder ==
    /\ (CopiesOf(run) # {} \/ RemovalsOf(run) # {}) =>
          /\ Validated
          /\ job.remove_others_matching => job.destination_dir \in enumerated
    /\ pc = "copying" => RemovalsOf(run) = {}
    /\ RemovalsOf(run) # {} =>
          /\ files_to_copy = <<>>
          /\ Cardinality(CopiesOf(run)) = Len(CopyCandidates)
    /\ \A p \in ToSet(files_to_delete) \cup {e.destination : e \in RemovalsOf(run)} :
          /\ p \in DOMAIN fs_before
          /\ p \in ToSet(DeletionCandidates)

\* a file was created at a path that did not exist when the job started,
\* another file was removed after it, and the new file is in place
C24_Witness ==
    /\ pc = "done"
    /\ \E e \in CopiesOf(run) :
          /\ e.outcome = Success
          /\ e.destination \notin DOMAIN fs_before
          /\ e.destination \in DOMAIN fs
    /\ \E e \in RemovalsOf(run) : e.outcome = Success

\* C25: when run_single_job returns an Error because a directory failed
\* validation, the message of the job carries the code that is returned.
C25_MessageCarriesReturnedCode ==
    (pc = "done" /\ result.tag = "Error" /\ ~Validated /\ CopiesOf(run) = {}) =>
        /\ result.code \in {CJERR_SOURCE_DIR_NOT_EXISTS, CJERR_DESTINATION_DIR_NOT_EXISTS}
        /\ result.code = CJERR_SOURCE_DIR_NOT_EXISTS <=> SourceDirMissing(fs_before, job)
        /\ \A m \in BeginOf(run) : m.code = result.code
        /\ BeginOf(run) # {}

\* C29: two copy candidates of a run are never given the same computed
\* destination, with keep_structure and without it.
C29_DestinationsDistinct ==
    \A i, k \in 1..Len(copy_log) :
        (i < k /\ copy_log[i].run = run /\ copy_log[k].run = run /\ copy_log[i].called /\ copy_log[k].called) =>
            copy_log[i].destination # copy_log[k].destination

\* the codes run_single_job returns when a directory fails validation
ValidationCodes == {CJERR_SOURCE_DIR_NOT_EXISTS, CJERR_DESTINATION_DIR_NOT_EXISTS}

\* C30: a job without halt_on_errors that passes validation returns Success
\* whatever its copy_file and remove_file calls returned, so that an Error
\* of a job without halt_on_errors is a failed validation, and a run that
\* was stopped was stopped by a job with halt_on_errors or by a failed
\* validation.
C30_NoHaltJobSucceeds ==
    /\ (pc = "done" /\ ~job.halt_on_errors /\ Validated) => result = Success
    /\ \A i \in 1..Len(job_outcomes) :
          (~job_configs[job_outcomes[i].index].halt_on_errors /\ job_outcomes[i].outcome.tag = "Error") =>
              job_outcomes[i].outcome.code \in ValidationCodes
    /\ exit_status = "failure" =>
          \/ job_configs[job_outcomes[Len(job_outcomes)].index].halt_on_errors
          \/ job_outcomes[Len(job_outcomes)].outcome.code \in ValidationCodes

\* under the global halt_on_errors the first job, without halt_on_errors,
\* returned Success although its only copy and its only removal failed, and
\* the run went on to its end
C30_Witness ==
    /\ global_config.halt_on_errors
    /\ exit_status = "ok"
    /\ job_outcomes # <<>>
    /\ job_outcomes[1].outcome = Success
    /\ ~job_configs[job_outcomes[1].index].halt_on_errors
    /\ \E e \in ToSet(copy_log) : e.run = job_outcomes[1].index /\ e.outcome # Success
    /\ \E e \in ToSet(remove_log) : e.run = job_outcomes[1].index /\ e.outcome # Success
    /\ \A e \in ToSet(copy_log) \cup ToSet(remove_log) : e.outcome # Success

====
